---- MODULE Spec2Model ----
(***************************************************************************)
(* BookScraper (src/web_scraper_deepseek.py): the pagination walk of       *)
(* scrape_books, the page fetch of _get_page_content, the per-item         *)
(* extraction of _extract_book_data and the CSV sink of _save_to_csv.      *)
(*                                                                         *)
(* Markup is modelled by what the code reads from it.  An optional node or *)
(* attribute is a sequence: <<>> when it is absent, <<v>> when it is       *)
(* present with value v.  Text is a sequence of characters/words, so that  *)
(* str.strip() has something to remove.  A URL is the directory segments   *)
(* of its path and its last segment; a relative reference says whether it  *)
(* starts with "/", how many leading "../" it has, its directories and its *)
(* last segment, and urljoin resolves one against the other.               *)
(***************************************************************************)
EXTENDS Integers, Sequences, FiniteSets, TLC

\* Bounds of the modelled catalogue.
MaxPages == 3      \* pages a catalogue chain may have (fetches of one walk)
MaxItems == 3      \* item nodes served over one walk

\* Python's None, and the empty dict _extract_book_data returns on failure.
None == [none |-> TRUE]
EmptyDict == <<>>

\* Python values whose type matters: rating is an int or the str 'N/A'.
PyInt(n) == <<"int", n>>
PyStr(s) == <<"str", s>>

---------------------------------------------------------------------------
\* URLs and urllib.parse.urljoin

Url(d, f) == [dirs |-> d, file |-> f]
Ref(a, u, d, f) == [abs |-> a, up |-> u, dirs |-> d, file |-> f]

DropLast(s, n) == SubSeq(s, 1, IF Len(s) > n THEN Len(s) - n ELSE 0)

\* RFC 3986 resolution as urljoin does it: a reference starting with "/"
\* replaces the whole path; otherwise the base's last segment is dropped, each
\* leading "../" drops one more directory (never above the root), and the
\* reference's segments are appended.
urljoin(base, ref) ==
    IF ref.abs
    THEN Url(ref.dirs, ref.file)
    ELSE Url(DropLast(base.dirs, ref.up) \o ref.dirs, ref.file)

\* The constructor's base_url: the default https://books.toscrape.com/ for the
\* walk; extraction alone is also tried with a seed that lies in a directory.
DefaultBaseUrl == Url(<<>>, "")
BaseUrls == {DefaultBaseUrl}
ExtractBaseUrls == {DefaultBaseUrl, Url(<<"catalogue">>, "page-1.html")}

\* output_file as path components: the default 'books.csv' and the
\* 'data/books.csv' of the __main__ block.
DefaultOutputFile == <<"books.csv">>
OutputFiles == {DefaultOutputFile, <<"data", "books.csv">>}

---------------------------------------------------------------------------
\* Text

IsSpace(c) == c \in {" ", "\n", "\t"}

RECURSIVE lstrip(_)
lstrip(s) == IF s # <<>> /\ IsSpace(Head(s)) THEN lstrip(Tail(s)) ELSE s

RECURSIVE rstrip(_)
rstrip(s) ==
    IF s # <<>> /\ IsSpace(s[Len(s)]) THEN rstrip(SubSeq(s, 1, Len(s) - 1)) ELSE s

strip(s) == rstrip(lstrip(s))

---------------------------------------------------------------------------
\* Item nodes (article.product_pod) and pages

\* title: the title attribute of h3 > a (<<>>: heading, anchor or attribute
\*        missing); price: text of p.price_color; star: class list of
\*        p.star-rating; avail: text of p.instock.availability; href: the href
\*        attribute of h3 > a.
Item(t, p, s, a, h) == [title |-> t, price |-> p, star |-> s, avail |-> a, href |-> h]

PriceText == <<"£51.77">>
AvailText == <<"\n", " ", "In stock", "\n">>
HrefA == Ref(FALSE, 0, <<"a-light-in-the-attic_1000">>, "index.html")
HrefB == Ref(FALSE, 1, <<"sharp-objects_997">>, "index.html")

BookA == Item(<<"A Light in the Attic">>, <<PriceText>>, <<<<"star-rating", "Three">>>>,
              <<AvailText>>, <<HrefA>>)
BookB == Item(<<"Sharp Objects">>, <<<<" ", "£47.82">>>>, <<<<"star-rating", "Two">>>>,
              <<AvailText>>, <<HrefB>>)
NoTitleItem == [BookA EXCEPT !.title = <<>>]
EmptyTitleItem == [BookA EXCEPT !.title = <<"">>]

\* The item nodes the walk's pages are made of.
Items == {BookA, BookB, NoTitleItem, EmptyTitleItem}

\* Every combination of present, absent and malformed sub-fields.
RatingTokens == {"One", "Two", "Three", "Four", "Five", "Zero"}
StarClasses == {<<>>, <<<<"star-rating">>>>} \cup {<<<<"star-rating", w>>>> : w \in RatingTokens}
AllItems ==
    {Item(t, p, s, a, h) :
        t \in {<<>>, <<"">>, <<"A Light in the Attic">>},
        p \in {<<>>, <<PriceText>>},
        s \in StarClasses,
        a \in {<<>>, <<AvailText>>},
        h \in {<<>>, <<HrefA>>}}

\* li.next: <<>> when the page has none; otherwise its anchor, <<>> when the
\* li has no <a>; otherwise the anchor's href, <<>> when it has none.
NoNext == <<>>
NextNoAnchor == << <<>> >>
NextNoHref == << << <<>> >> >>
NextLink(ref) == << << <<ref>> >> >>

NextRefs == {Ref(FALSE, 0, <<"catalogue">>, "page-2.html"), Ref(FALSE, 0, <<>>, "page-3.html")}
LastNexts == {NoNext, NextNoAnchor, NextNoHref}
Nexts == LastNexts \cup {NextLink(r) : r \in NextRefs}

SeqsUpTo(S, n) == UNION {[1..k -> S] : k \in 0..n}

\* The pages a server may answer with when `room` item nodes and `more` further
\* pages are left in the catalogue.
Pages(room, more) ==
    {[items |-> its, next |-> nx] :
        its \in SeqsUpTo(Items, room),
        nx \in (IF more > 0 THEN Nexts ELSE LastNexts)}

---------------------------------------------------------------------------
\* State

VARIABLES
    base_url,       \* self.base_url
    output_file,    \* scrape_books' argument
    pc,             \* position in scrape_books
    current_url,    \* scrape_books' local
    all_books,      \* scrape_books' local
    soup,           \* the page of the current iteration, or None
    idx,            \* position of the for loop over soup's items
    result,         \* the value returned to the caller, None until then
    requests,       \* session.get calls so far: url, status, page served
    delays,         \* time.sleep(1) calls so far
    io,             \* what the file system did on the save: "none" before it
    csv_writes      \* contents written to output_file, one per open(.., 'w')

vars == <<base_url, output_file, pc, current_url, all_books, soup, idx, result,
          requests, delays, io, csv_writes>>

---------------------------------------------------------------------------
\* _extract_book_data (lines 60-95)

\* rating_map.get(rating_class, 'N/A'), lines 75 and 77.
rating_map_get(rating_class) ==
    CASE rating_class = "One" -> PyInt(1)
      [] rating_class = "Two" -> PyInt(2)
      [] rating_class = "Three" -> PyInt(3)
      [] rating_class = "Four" -> PyInt(4)
      [] rating_class = "Five" -> PyInt(5)
      [] OTHER -> PyStr("N/A")

\* One try block around every lookup: the first lookup that raises (subscript
\* of None, missing attribute, index out of range) sends control to the except
\* clause, which returns {}.
_extract_book_data(book, self_base_url) ==
    IF book.title = <<>> THEN EmptyDict                 \* line 71
    ELSE IF book.price = <<>> THEN EmptyDict            \* line 72: None.text
    ELSE IF book.star = <<>> THEN EmptyDict             \* line 76: None['class']
    ELSE IF Len(book.star[1]) < 2 THEN EmptyDict        \* line 76: [1] out of range
    ELSE IF book.avail = <<>> THEN EmptyDict            \* line 80: None.text
    ELSE IF book.href = <<>> THEN EmptyDict             \* line 83: KeyError
    ELSE [title |-> book.title[1],
          price |-> strip(book.price[1]),
          rating |-> rating_map_get(book.star[1][2]),
          availability |-> strip(book.avail[1]),
          url |-> urljoin(self_base_url, book.href[1])]

\* Accumulate with `all_books = [book_data]` for the append: earlier records
\* are lost.
AccumulateReplace(books, book_data) ==
    IF DOMAIN book_data # {} THEN <<book_data>> ELSE books

\* Accumulate with insert(0, ..) for append: the page order is lost.
AccumulatePrepend(books, book_data) ==
    IF DOMAIN book_data # {} THEN <<book_data>> \o books ELSE books

\* `if book_data: all_books.append(book_data)`, lines 124-125: a dict is true
\* when it has at least one key.
Accumulate(books, book_data) ==
    IF DOMAIN book_data # {} THEN Append(books, book_data) ELSE books

---------------------------------------------------------------------------
\* _get_page_content (lines 38-58)

\* What session.get and raise_for_status can do: a success response carrying a
\* page, a non-success status (HTTPError) or a network-level error; both
\* errors are RequestExceptions.
Responses(room, more) ==
    {[status |-> "ok", page |-> p] : p \in Pages(room, more)}
        \cup {[status |-> "http_error", page |-> None],
              [status |-> "network_error", page |-> None]}

\* SleepsAfter with the sleep in a finally clause: it runs on failures too.
SleepsAlways(status) == 1

\* time.sleep(1) sits between raise_for_status and the parse, inside the try.
SleepsAfter(status) == IF status = "ok" THEN 1 ELSE 0

\* The parsed page, or None from the except clause.
_get_page_content(resp) == IF resp.status = "ok" THEN resp.page ELSE None

---------------------------------------------------------------------------
\* _save_to_csv (lines 144-164)

dirname(filename) == SubSeq(filename, 1, Len(filename) - 1)

\* data[0].keys(): the insertion order of the dict literal, lines 86-92.
FieldNames == <<"title", "price", "rating", "availability", "url">>

Row(d) == [i \in 1..Len(FieldNames) |-> d[FieldNames[i]]]

CsvContent(data) ==
    IF data # <<>>
    THEN [header |-> FieldNames, rows |-> [i \in 1..Len(data) |-> Row(data[i])]]
    ELSE [header |-> <<>>, rows |-> <<>>]

\* os.makedirs('') raises FileNotFoundError, so a filename with no directory
\* component never reaches open(); an OSError from makedirs or open is caught
\* the same way.  Returns the writes done to the file so far.
_save_to_csv(writes, data, filename, fs) ==
    IF dirname(filename) = <<>> THEN writes
    ELSE IF fs # "ok" THEN writes
    ELSE Append(writes, CsvContent(data))

---------------------------------------------------------------------------
\* scrape_books (lines 97-142)

ItemsServed ==
    LET RECURSIVE Sum(_)
        Sum(i) == IF i = 0 THEN 0
                  ELSE Sum(i - 1) + (IF requests[i].status = "ok"
                                     THEN Len(requests[i].page.items) ELSE 0)
    IN Sum(Len(requests))

Init ==
    /\ base_url \in BaseUrls
    /\ output_file \in OutputFiles
    /\ pc = "fetch"
    /\ current_url = base_url
    /\ all_books = <<>>
    /\ soup = None
    /\ idx = 1
    /\ result = None
    /\ requests = <<>>
    /\ delays = 0
    /\ io = "none"
    /\ csv_writes = <<>>

\* AfterFetch with `continue` for `break`: a failed fetch is tried again.
AfterFetchRetry(page) ==
    IF page = None THEN "fetch"
    ELSE IF page.items = <<>> THEN "advance" ELSE "extract"

\* `if not soup: break`, lines 115-116, and the entry of the for loop.
AfterFetch(page) ==
    IF page = None THEN "save"
    ELSE IF page.items = <<>> THEN "advance" ELSE "extract"

\* Lines 111-116: the loop test (current_url is a URL here), the fetch and the
\* break on failure.
Fetch ==
    /\ pc = "fetch"
    /\ current_url # None
    /\ Len(requests) < MaxPages
    /\ \E resp \in Responses(MaxItems - ItemsServed, MaxPages - Len(requests) - 1) :
         /\ requests' = Append(requests, [url |-> current_url, status |-> resp.status,
                                          page |-> resp.page])
         /\ delays' = delays + SleepsAfter(resp.status)
         /\ soup' = _get_page_content(resp)
         /\ pc' = AfterFetch(soup')
    /\ idx' = 1
    /\ UNCHANGED <<base_url, output_file, current_url, all_books, result, io, csv_writes>>

\* ExtractItem with the failure of one item ending the page's loop.
ExtractItemAbortsPage ==
    /\ pc = "extract"
    /\ idx <= Len(soup.items)
    /\ all_books' = Accumulate(all_books, _extract_book_data(soup.items[idx], base_url))
    /\ idx' = idx + 1
    /\ pc' = IF idx = Len(soup.items) \/ all_books' = all_books THEN "advance" ELSE "extract"
    /\ UNCHANGED <<base_url, output_file, current_url, soup, result, requests, delays,
                   io, csv_writes>>

\* Lines 122-125: one iteration of the for loop.
ExtractItem ==
    /\ pc = "extract"
    /\ idx <= Len(soup.items)
    /\ all_books' = Accumulate(all_books, _extract_book_data(soup.items[idx], base_url))
    /\ idx' = idx + 1
    /\ pc' = IF idx = Len(soup.items) THEN "advance" ELSE "extract"
    /\ UNCHANGED <<base_url, output_file, current_url, soup, result, requests, delays,
                   io, csv_writes>>

\* next_button.a['href'], line 130: raises when the li has no anchor or the
\* anchor has no href.
NextHrefRaises(next) ==
    IF next = <<>> THEN FALSE
    ELSE IF next[1] = <<>> THEN TRUE
    ELSE next[1][1] = <<>>

\* NextUrl with self.base_url for current_url in the urljoin of line 131.
NextUrlAgainstSeed(url, next) ==
    IF next = <<>> THEN None ELSE urljoin(base_url, next[1][1][1])

\* Lines 128-133 when nothing raises.
NextUrl(url, next) == IF next = <<>> THEN None ELSE urljoin(url, next[1][1][1])

Advance ==
    /\ pc = "advance"
    /\ ~NextHrefRaises(soup.next)
    /\ current_url' = NextUrl(current_url, soup.next)
    /\ pc' = IF current_url' = None THEN "save" ELSE "fetch"
    /\ UNCHANGED <<base_url, output_file, all_books, soup, idx, result, requests, delays,
                   io, csv_writes>>

\* Lines 140-142: an exception inside the try (line 130 is the one the
\* modelled markup can raise) is logged and [] is returned.
AdvanceRaises ==
    /\ pc = "advance"
    /\ NextHrefRaises(soup.next)
    /\ result' = <<>>
    /\ pc' = "done"
    /\ UNCHANGED <<base_url, output_file, current_url, all_books, soup, idx, requests,
                   delays, io, csv_writes>>

\* Lines 135-139: after the loop, save and return all_books.
SaveAndReturn ==
    /\ pc = "save"
    /\ \E fs \in {"ok", "oserror"} :
         /\ io' = fs
         /\ csv_writes' = _save_to_csv(csv_writes, all_books, output_file, fs)
    /\ result' = all_books
    /\ pc' = "done"
    /\ UNCHANGED <<base_url, output_file, current_url, all_books, soup, idx, requests,
                   delays>>

Next == Fetch \/ ExtractItem \/ Advance \/ AdvanceRaises \/ SaveAndReturn

Spec == Init /\ [][Next]_vars

\* The walk always takes its next step: the program is sequential.
FairSpec == Spec /\ WF_vars(Next)

---------------------------------------------------------------------------
\* Extraction alone: the for loop of lines 122-125 on a page of one item node,
\* drawn from every combination of sub-fields, just after its fetch.

OneItemPage(item) == [items |-> <<item>>, next |-> NoNext]

InitExtract ==
    /\ base_url \in ExtractBaseUrls
    /\ output_file \in OutputFiles
    /\ pc = "extract"
    /\ current_url = base_url
    /\ all_books = <<>>
    /\ \E item \in AllItems : soup = OneItemPage(item)
    /\ idx = 1
    /\ result = None
    /\ requests = <<[url |-> base_url, status |-> "ok", page |-> soup]>>
    /\ delays = 1
    /\ io = "none"
    /\ csv_writes = <<>>

ExtractSpec == InitExtract /\ [][ExtractItem]_vars

---------------------------------------------------------------------------
\* The walk on a site that answers a URL with the same page every time it is
\* asked, and whose next-page links may lead back to a page already fetched.
\* The code has no limit on the fetches of a walk; the model stops at MaxFetches.

MaxFetches == 4

\* '../page-2.html' and '/catalogue/page-1.html': from the seed they reach
\* /page-2.html and /catalogue/page-1.html and nothing else.
SiteRefs == {Ref(FALSE, 1, <<>>, "page-2.html"), Ref(TRUE, 0, <<"catalogue">>, "page-1.html")}
SiteItemLists == {<<>>, <<BookA>>, <<NoTitleItem, BookB>>}
SitePages ==
    {[items |-> its, next |-> nx] :
        its \in SiteItemLists,
        nx \in {NoNext, NextNoAnchor} \cup {NextLink(r) : r \in SiteRefs}}

\* The page the site has already answered `url` with, if it has.
ServedAt(url) ==
    {requests[i].page :
        i \in {j \in 1..Len(requests) : requests[j].url = url /\ requests[j].status = "ok"}}

SiteResponses(url) ==
    {[status |-> "ok", page |-> p] :
        p \in (IF ServedAt(url) = {} THEN SitePages ELSE ServedAt(url))}
        \cup {[status |-> "http_error", page |-> None],
              [status |-> "network_error", page |-> None]}

\* FetchSite with a set of visited URLs: a URL fetched before ends the walk.
FetchSiteOnce ==
    /\ pc = "fetch"
    /\ current_url # None
    /\ Len(requests) < MaxFetches
    /\ IF \E i \in 1..Len(requests) : requests[i].url = current_url
       THEN /\ pc' = "save"
            /\ UNCHANGED <<requests, delays, soup>>
       ELSE \E resp \in SiteResponses(current_url) :
              /\ requests' = Append(requests, [url |-> current_url, status |-> resp.status,
                                               page |-> resp.page])
              /\ delays' = delays + SleepsAfter(resp.status)
              /\ soup' = _get_page_content(resp)
              /\ pc' = AfterFetch(soup')
    /\ idx' = 1
    /\ UNCHANGED <<base_url, output_file, current_url, all_books, result, io, csv_writes>>

\* Lines 111-116 on such a site: whether current_url was fetched before plays
\* no part.
FetchSite ==
    /\ pc = "fetch"
    /\ current_url # None
    /\ Len(requests) < MaxFetches
    /\ \E resp \in SiteResponses(current_url) :
         /\ requests' = Append(requests, [url |-> current_url, status |-> resp.status,
                                          page |-> resp.page])
         /\ delays' = delays + SleepsAfter(resp.status)
         /\ soup' = _get_page_content(resp)
         /\ pc' = AfterFetch(soup')
    /\ idx' = 1
    /\ UNCHANGED <<base_url, output_file, current_url, all_books, result, io, csv_writes>>

NextSite == FetchSite \/ ExtractItem \/ Advance \/ AdvanceRaises \/ SaveAndReturn

SiteSpec == Init /\ [][NextSite]_vars

---------------------------------------------------------------------------
\* Properties

\* The records of one page, in item order: what _extract_book_data yields for
\* each item node against `base`, the failed items left out.
RECURSIVE PageRecords(_, _)
PageRecords(items, base) ==
    IF items = <<>> THEN <<>>
    ELSE LET d == _extract_book_data(Head(items), base)
         IN (IF DOMAIN d = {} THEN <<>> ELSE <<d>>) \o PageRecords(Tail(items), base)

\* The records of the first k requests' pages, in page order.
RECURSIVE WalkRecords(_)
WalkRecords(k) ==
    IF k = 0 THEN <<>>
    ELSE WalkRecords(k - 1)
            \o (IF requests[k].status = "ok"
                THEN PageRecords(requests[k].page.items, base_url) ELSE <<>>)

NumRequests == Len(requests)
Done == pc = "done"
FetchOk(i) == requests[i].status = "ok"
HasNextLink(page) == page.next # NoNext /\ ~NextHrefRaises(page.next)
OkRequests == {i \in 1..NumRequests : FetchOk(i)}

\* The requests so far are a walk along next-page links on which every fetch
\* succeeded and every next-page element resolved.
CleanWalk ==
    \A i \in 1..NumRequests : FetchOk(i) /\ ~NextHrefRaises(requests[i].page.next)

\* Request i was made to the URL that page i-1's next link resolves to against
\* page i-1's own URL; the first to the seed.
InChainOrder ==
    \A i \in 1..NumRequests :
        requests[i].url =
            IF i = 1 THEN base_url
            ELSE NextUrl(requests[i - 1].url, requests[i - 1].page.next)

\* C1: on a chain of N pages linked by next-page links, only the Nth without
\* one, with every fetch succeeding, the walk ends having fetched exactly the
\* N pages in chain order (it stops at the first page without a next link and
\* not before), and returns the pages' records in page order and, within a
\* page, in item order; until it has ended it always has a step to take.
C1_ChainWalk ==
    /\ (Done /\ CleanWalk) =>
          /\ NumRequests >= 1
          /\ requests[NumRequests].page.next = NoNext
          /\ \A i \in 1..(NumRequests - 1) : HasNextLink(requests[i].page)
          /\ InChainOrder
          /\ result = WalkRecords(NumRequests)
    /\ ~Done => ENABLED Next

C1_Witness ==
    /\ Done /\ CleanWalk
    /\ NumRequests = MaxPages
    /\ Len(requests[1].page.items) = 2
    /\ Len(result) = 3
    /\ result[1] # result[2]

\* C2: when the fetch of page k fails (non-success status or network error),
\* that fetch is the last request of the walk (no retry, no later page), the
\* walk goes on to save and return, and the accumulated and the returned
\* records are exactly those of pages 1..k-1.
C2_FetchFailureEndsWalk ==
    \A k \in 1..NumRequests :
        ~FetchOk(k) =>
            /\ k = NumRequests
            /\ pc \in {"save", "done"}
            /\ pc = "save" => ENABLED SaveAndReturn
            /\ all_books = WalkRecords(k - 1)
            /\ Done => result = WalkRecords(k - 1)

C2_Witness ==
    /\ Done
    /\ NumRequests = 2
    /\ requests[2].status = "http_error"
    /\ Len(requests[1].page.items) = 2
    /\ result = PageRecords(requests[1].page.items, base_url)
    /\ Len(result) = 2

HasUntitledItem(page) == \E i \in 1..Len(page.items) : page.items[i].title = <<>>

\* C5: on a page that has an item without a title, the accumulator holds, at
\* every point of the page's loop, the earlier pages' records followed by the
\* records of the page's items processed so far with only the failed items
\* left out (so a failed item leaves it unchanged and the items after it are
\* still appended, in order); and once the page's loop is over the walk goes
\* on to the next-page check.
C5_UntitledItemSkipped ==
    (pc \in {"extract", "advance"} /\ HasUntitledItem(soup)) =>
        /\ all_books =
              WalkRecords(NumRequests - 1)
                 \o PageRecords(SubSeq(soup.items, 1,
                                       IF pc = "extract" THEN idx - 1 ELSE Len(soup.items)),
                                base_url)
        /\ pc = "extract" => idx <= Len(soup.items)
        /\ ENABLED Next

C5_Witness ==
    /\ pc = "fetch"
    /\ NumRequests = 1
    /\ requests[1].page.items = <<BookA, NoTitleItem, BookB>>
    /\ Len(all_books) = 2
    /\ all_books[2].title = "Sharp Objects"
    /\ current_url # base_url

\* C9: the politeness delay has occurred once for each successful fetch and
\* never for a failed one: at every point of a walk, as many delays as
\* successful fetches.
C9_DelayPerSuccessfulFetch == delays = Cardinality(OkRequests)

C9_Witness ==
    /\ NumRequests = 3
    /\ ~FetchOk(3)
    /\ delays = 2

\* The item node of the one-item page, once the for loop has processed it.
Extracted == pc = "advance" /\ NumRequests = 1 /\ Len(soup.items) = 1
TheItem == soup.items[1]
HasTitle(item) == item.title # <<>> /\ item.title # <<"">>
HasStarToken(item) == IF item.star = <<>> THEN FALSE ELSE Len(item.star[1]) >= 2

\* The placeholder the specification names for a missing text field.
Unknown == <<"unknown">>

\* C3: an item with a title and no price element (its other sub-fields
\* present) is not dropped: extraction yields a record whose price is the
\* placeholder "unknown", and the walk's accumulator receives it.
C3_MissingPricePlaceholder ==
    (Extracted /\ HasTitle(TheItem) /\ TheItem.price = <<>>
        /\ HasStarToken(TheItem) /\ TheItem.avail # <<>> /\ TheItem.href # <<>>) =>
        IF Len(all_books) = 1 THEN all_books[1].price = Unknown ELSE FALSE

\* The rating the claim assigns to a star-rating class list: the number its
\* second token names, and the code's sentinel 'N/A' for any other token, for
\* a list without a second token and for a missing element.
ClaimedRating(star) ==
    IF star = <<>> THEN PyStr("N/A")
    ELSE IF Len(star[1]) < 2 THEN PyStr("N/A")
    ELSE LET w == star[1][2]
         IN IF w = "One" THEN PyInt(1)
            ELSE IF w = "Two" THEN PyInt(2)
            ELSE IF w = "Three" THEN PyInt(3)
            ELSE IF w = "Four" THEN PyInt(4)
            ELSE IF w = "Five" THEN PyInt(5)
            ELSE PyStr("N/A")

\* C4: an item with a title (and price, availability and link present) yields
\* a record whatever its star-rating element is: rating 1..5 for the second
\* class token One..Five, the unknown-rating sentinel for any other token and
\* when the element or its second token is missing.
C4_RatingTotal ==
    (Extracted /\ HasTitle(TheItem)
        /\ TheItem.price # <<>> /\ TheItem.avail # <<>> /\ TheItem.href # <<>>) =>
        IF Len(all_books) = 1 THEN all_books[1].rating = ClaimedRating(TheItem.star)
        ELSE FALSE

\* C6: every record in the accumulator has a non-empty title and carries the
\* five fields title, price, rating, availability and url.
C6_RecordsWellFormed ==
    \A i \in 1..Len(all_books) :
        /\ DOMAIN all_books[i] = {"title", "price", "rating", "availability", "url"}
        /\ all_books[i].title # ""

\* The records of the first k requests' pages, each page's links resolved
\* against the URL that page was requested at.
RECURSIVE WalkRecordsAgainstPage(_)
WalkRecordsAgainstPage(k) ==
    IF k = 0 THEN <<>>
    ELSE WalkRecordsAgainstPage(k - 1)
            \o (IF requests[k].status = "ok"
                THEN PageRecords(requests[k].page.items, requests[k].url) ELSE <<>>)

\* C7: once a page's items are extracted, every record in the accumulator, of
\* the seed page and of every later page, has as url the item's link resolved
\* against the URL of the page the item was extracted from.
C7_UrlAgainstCurrentPage ==
    pc = "advance" => all_books = WalkRecordsAgainstPage(NumRequests)

\* C8: however the walk ends (no next link, fetch failure, sink write failure,
\* a next-page element without a link), the value returned is the sequence of
\* records accumulated up to that point.
C8_ReturnsAccumulated == Done => result = all_books

\* C10: no write to the sink happens before the walk has ended, and a walk
\* that ended by a missing next link or a fetch failure, the file system
\* failing nothing, has written the sink exactly once: the header title,
\* price, rating, availability, url followed by the returned records in order,
\* for every output path and also when no record was accumulated.
C10_SinkWrittenOnce ==
    /\ ~Done => csv_writes = <<>>
    /\ (Done /\ io = "ok") =>
          csv_writes = <<[header |-> FieldNames,
                          rows |-> [i \in 1..Len(result) |-> Row(result[i])]]>>

\* The link of a page's next-page element resolved against `url`.
ResolvedNext(url, page) == urljoin(url, page.next[1][1][1])

\* C11: a page with a next-page link is followed by a fetch of that link
\* resolved against the URL of the page just fetched (every request after the
\* first is to such a URL, and so is the URL about to be fetched); after a
\* page without a next-page link no fetch is possible any more, the walk goes
\* on to save and return, and once it has ended no step is possible.
C11_Advancing ==
    /\ \A i \in 2..NumRequests :
          IF FetchOk(i - 1) /\ HasNextLink(requests[i - 1].page)
          THEN requests[i].url = ResolvedNext(requests[i - 1].url, requests[i - 1].page)
          ELSE FALSE
    /\ (pc = "fetch" /\ NumRequests >= 1) =>
          IF FetchOk(NumRequests) /\ HasNextLink(requests[NumRequests].page)
          THEN current_url = ResolvedNext(requests[NumRequests].url,
                                          requests[NumRequests].page)
          ELSE FALSE
    /\ (NumRequests >= 1 /\ FetchOk(NumRequests)
            /\ requests[NumRequests].page.next = NoNext) =>
          /\ pc \in {"extract", "advance", "save", "done"}
          /\ ~ENABLED Fetch
          /\ pc = "advance" => ENABLED Advance
          /\ pc = "save" => (current_url = None /\ ENABLED SaveAndReturn)
    /\ Done => ~ENABLED Next

C11_Witness ==
    /\ Done
    /\ NumRequests = 3
    /\ requests[2].url = Url(<<"catalogue">>, "page-2.html")
    /\ requests[3].url = Url(<<"catalogue">>, "page-3.html")
    /\ FetchOk(3)
    /\ requests[3].page.next = NoNext
    /\ io = "ok"

IsPrefix(a, b) == Len(a) <= Len(b) /\ SubSeq(b, 1, Len(a)) = a

\* C12: across every step of a walk the accumulator of before is a prefix of
\* the accumulator of after; the steps taken at the fetch and at the next-page
\* check leave it unchanged; and the current page URL changes in no step but
\* the one of the next-page check.
C12_AppendOnly ==
    [][/\ IsPrefix(all_books, all_books')
       /\ pc \in {"fetch", "advance"} => all_books' = all_books
       /\ current_url' # current_url => pc = "advance"]_vars

C12_Witness ==
    /\ pc = "advance"
    /\ NumRequests = 2
    /\ Len(all_books) = 3
    /\ current_url = Url(<<"catalogue">>, "page-2.html")
    /\ all_books[1] # all_books[3]

\* Every fetch so far succeeded and every page served has a next-page link:
\* the walk is on a chain that has not ended, as it is for ever on a cycle.
AllLinked ==
    \A i \in 1..NumRequests :
        IF FetchOk(i) THEN HasNextLink(requests[i].page) ELSE FALSE

\* Requests i < j were made to the same URL and both succeeded.
Revisit(i, j) == i < j /\ requests[i].url = requests[j].url /\ FetchOk(i) /\ FetchOk(j)

\* What holds of the walk along next-page links that lead back: while every
\* fetch succeeds and every page has a next link the walk is neither at the
\* save nor ended and has a step to take (up to the model's MaxFetches); a
\* fetch is possible whether or not current_url was fetched before; and after
\* each page the accumulator holds the records of every page fetched, those
\* of a page fetched again once more.
WalksOn ==
    /\ AllLinked =>
          /\ pc \notin {"save", "done"}
          /\ NumRequests < MaxFetches => ENABLED NextSite
    /\ (pc = "fetch" /\ NumRequests < MaxFetches) => ENABLED FetchSite
    /\ pc = "advance" => all_books = WalkRecords(NumRequests)

====
